---- MODULE Spec2Model ----
(***************************************************************************)
(* Audioflow integration: the device client (api.Client), the polling      *)
(* coordinator (AudioflowUpdateCoordinator), one UDP discovery session     *)
(* (api.discover / _DiscoveryProtocol / _DiscoveryContextManager) and the  *)
(* config flow's discovery round over all interfaces                       *)
(* (config_flow._collect_discoveries_all_interfaces and the filter of      *)
(* async_step_auto_discover).                                              *)
(*                                                                         *)
(* The three parts share no state.  Each has a specification of its own    *)
(* (SpecClient, SpecDiscovery, SpecFlow) in which the other two parts stay *)
(* in their initial state.  A step of the model is what the event loop     *)
(* runs between two suspensions of a coroutine, or one callback.           *)
(*                                                                         *)
(* The client part also holds the setup of the config entry                *)
(* (__init__.async_setup_entry, switch.async_setup_entry) and the commands *)
(* of the zone switches; SpecCommands and SpecDevice run it with commands, *)
(* and with a device whose answers change shape.  SpecWifi applies         *)
(* WifiInfo.parse and the wifi handling of full_state to a set of strings. *)
(***************************************************************************)
EXTENDS Integers, Sequences, FiniteSets

VARIABLES
    \* ---- the device and api.Client --------------------------------------
    devZones,      \* the device's zones, as GET /zones reports them (raw ids)
    reqSwitch,     \* the Client.switch() task gathered by full_state
    reqZones,      \* the Client.zones() task gathered by full_state
    gatherOut,     \* the outer future of asyncio.gather in full_state
    fsLast,        \* how the last call of full_state ended
    \* ---- AudioflowUpdateCoordinator -------------------------------------
    coordPc,       \* "idle" or "refreshing"
    data,          \* coordinator.data: NoData or a FullState
    lastUpdateSuccess,
    lastException,
    lastGood,      \* history: the FullState the last successful refresh returned
    \* ---- the config entry and its zone switches --------------------------
    setupPc,       \* async_setup_entry: "none", "first_refresh", "loaded", "not_ready"
    registered,    \* whether hass.data[DOMAIN][entry.entry_id] holds the coordinator
    platformsForwarded, \* whether the platforms were forwarded for the entry
    entities,      \* zone ids of the zone entities: NoEntities before the platform setup
    refreshRequested, \* a refresh asked for by async_request_refresh and not yet begun
    cmd,           \* the PUT of the running switch command
    cmdLog,        \* history: the last two switch commands that ended, and how
    cmdCount,      \* how many switch commands were issued
    \* ---- WifiInfo.parse on its own ---------------------------------------
    wifiParts,     \* how the string under test was put together
    wifiParsed,    \* what WifiInfo.parse made of it
    wifiField,     \* the wifi field of the FullState full_state returns for it
    \* ---- one discovery session (api.discover) ----------------------------
    timeoutArg,    \* the session's timeout argument: NoTimeout (None) or seconds
    sessPc,        \* "idle", "entered", "exited", "exitedEarly" or "failed"
    transport,     \* the datagram transport: "none", "open", "closing", "closed"
    timersArmed,   \* how many times loop.call_later was called
    timerDeadline, \* when the armed timer is due (NoTimer: none armed)
    timerFired,    \* whether _on_timeout has run
    elapsed,       \* seconds since the session was entered
    pingsSent,     \* how many "afping" probes were sent
    rxCount,       \* how many datagrams the protocol received
    queue,         \* _DiscoveryProtocol.discoveries
    yielded,       \* what the reply sequence has yielded to its consumer
    iterPc,        \* the reply sequence: "running" or "done"
    accepted,      \* history: every DiscoveryInfo put on the queue, in order
    malformedAt,   \* history: which datagram was the first unusable one (0: none)
    \* ---- the config flow's discovery round -------------------------------
    nIf,           \* how many enabled IPv4 interfaces async_get_adapters reports
    configured,    \* unique ids (serial numbers) of the configured entries
    flowPc,        \* the flow's step: "user", "progress", "discovery_select" (next
                   \* step named), "select_form" or "manual" (form shown)
    discoveries,   \* AudioflowConfigFlowHandler._discoveries: None or a list
    written,       \* history: the rounds that have written _discoveries, in order
    rounds,        \* how many inner() tasks async_step_auto_discover has created
    configureTask, \* per round: its flow.async_configure task of self._tasks
    aggPc,         \* per round: position of _collect_discoveries_all_interfaces
    pending_tasks, \* per round: its counter of unfinished per-interface tasks
    aggWaiter,     \* per round: its future in the Condition's waiters
    taskPc,        \* per round: each per-interface task inner(interface)
    taskList,      \* history: what discover_list returned on each interface
    collected      \* per round: the list the per-interface tasks extend

entryVars == <<setupPc, registered, platformsForwarded, entities, refreshRequested>>

cmdVars == <<cmd, cmdLog, cmdCount>>

wifiVars == <<wifiParts, wifiParsed, wifiField>>

clientVars == <<devZones, reqSwitch, reqZones, gatherOut, fsLast,
                coordPc, data, lastUpdateSuccess, lastException, lastGood,
                entryVars, cmdVars, wifiVars>>

discVars == <<timeoutArg, sessPc, transport, timersArmed, timerDeadline, timerFired,
              elapsed, pingsSent, rxCount, queue, yielded, iterPc, accepted, malformedAt>>

flowVars == <<nIf, configured, flowPc, discoveries, written, rounds, configureTask,
              aggPc, pending_tasks, aggWaiter, taskPc, taskList, collected>>

vars == <<clientVars, discVars, flowVars>>

----------------------------------------------------------------------------
(* Bounds of the model *)

MaxZones == 2
MaxTimeout == 2
MaxDatagrams == 2
MaxInterfaces == 2
MaxRounds == 2

(* Helpers *)

Range(s) == {s[i] : i \in 1..Len(s)}

----------------------------------------------------------------------------
(* The device: GET /switch and GET /zones *)

\* Names of the physical outputs, by position on the device, as code points:
\* "A", " B", "C", "D", "E".
ZoneNames == << <<65>>, <<32, 66>>, <<67>>, <<68>>, <<69>> >>

\* Ids the device may report for its n zones: 0-based in order, descending,
\* all the same, or with gaps.
RawIds(n) == {[i \in 1..n |-> i - 1], [i \in 1..n |-> n - i],
              [i \in 1..n |-> 0], [i \in 1..n |-> 2 * i]}

\* api.Zone, as the device sends it.
RawZone(id, pos, st) == [id |-> id, name |-> ZoneNames[pos], enabled |-> 1, state |-> st]

\* The bodies GET /zones can have when no output is switched on.
RawZoneLists ==
    UNION {{[i \in 1..n |-> RawZone(ids[i], i, "off")] : ids \in RawIds(n)}
           : n \in 0..MaxZones}

\* "home [6] (-40dbm)"
WifiHome == <<104, 111, 109, 101, 32, 91, 54, 93, 32, 40, 45, 52, 48, 100, 98, 109, 41>>

\* api.Switch: the body of GET /switch.
SwitchBody == [name |-> "Audioflow", model |-> "3S-4Z", serial |-> "0123",
               version |-> "1.0", wifi |-> WifiHome, alexa |-> TRUE]

\* Bodies of GET /switch that are JSON objects without one of the keys of
\* api.Switch: without "serial", and without "wifi".
SwitchBodiesIncomplete == {
    [name |-> "Audioflow", model |-> "3S-4Z",
     version |-> "1.0", wifi |-> WifiHome, alexa |-> TRUE],
    [name |-> "Audioflow", model |-> "3S-4Z", serial |-> "0123",
     version |-> "1.0", alexa |-> TRUE]}

\* What makes _request raise: the transport (status, timeout) or resp.json().
RequestErrors == {"ClientError", "JSONDecodeError"}

----------------------------------------------------------------------------
(* api.Client *)

\* The historical remap: the device's id plus one.
zones_increment(raw) == [i \in 1..Len(raw) |-> [raw[i] EXCEPT !.id = raw[i].id + 1]]

\* Client.zones: the ids are reassigned by position, counting from 1.
zones(raw) == [i \in 1..Len(raw) |-> [raw[i] EXCEPT !.id = i]]

NoData == [none |-> TRUE]

----------------------------------------------------------------------------
(* api.WifiInfo: strings are sequences of code points *)

IsDigit(c) == c \in 48..57

\* str.isspace for the code points below 256.
IsSpace(c) == c \in (9..13) \cup (28..32) \cup {133, 160}

\* re.IGNORECASE on an ASCII letter of the pattern.
lower(c) == IF c \in 65..90 THEN c + 32 ELSE c

\* The value of a string of decimal digits.
RECURSIVE digits_value(_)
digits_value(t) ==
    IF t = <<>> THEN 0 ELSE 10 * digits_value(SubSeq(t, 1, Len(t) - 1)) + (t[Len(t)] - 48)

\* str.strip()
RECURSIVE lstrip(_)
lstrip(t) == IF t # <<>> /\ IsSpace(Head(t)) THEN lstrip(Tail(t)) ELSE t

RECURSIVE rstrip(_)
rstrip(t) ==
    IF t # <<>> /\ IsSpace(t[Len(t)]) THEN rstrip(SubSeq(t, 1, Len(t) - 1)) ELSE t

strip(t) == rstrip(lstrip(t))

\* int(str): surrounding whitespace, an optional sign, then digits, single
\* underscores allowed between them; anything else is a ValueError.
int_parse(t) ==
    LET u == strip(t)
        signed == u # <<>> /\ Head(u) \in {43, 45}
        body == IF signed THEN Tail(u) ELSE u
        wellformed ==
            /\ body # <<>>
            /\ IsDigit(body[1]) /\ IsDigit(body[Len(body)])
            /\ \A i \in 1..Len(body) : IsDigit(body[i]) \/ body[i] = 95
            /\ \A i \in 1..(Len(body) - 1) : ~(body[i] = 95 /\ body[i + 1] = 95)
        magnitude == digits_value(SelectSeq(body, IsDigit))
    IN IF wellformed
       THEN [ok |-> TRUE, val |-> IF signed /\ Head(u) = 45 THEN 0 - magnitude ELSE magnitude]
       ELSE [ok |-> FALSE, err |-> "ValueError"]

\* float(str) for what the strength group can hold, a string of "-" and
\* digits: one optional leading "-" and then digits, else a ValueError.  The
\* float is held in tenths.
float_parse(t) ==
    LET negative == t # <<>> /\ Head(t) = 45
        body == IF negative THEN Tail(t) ELSE t
    IN IF body # <<>> /\ \A i \in 1..Len(body) : IsDigit(body[i])
       THEN [ok |-> TRUE,
             val |-> [tenths |-> 10 * (IF negative THEN 0 - digits_value(body)
                                                   ELSE digits_value(body))]]
       ELSE [ok |-> FALSE, err |-> "ValueError"]

\* Where the "]" that ends the channel group is, in a rest of the string that
\* begins with " [": the first "]" from the fourth character on, 0 without.
ChannelEnd(t) ==
    LET js == {j \in 4..Len(t) : t[j] = 93 /\ \A i \in 3..(j - 1) : t[i] # 93}
    IN IF js = {} THEN 0 ELSE CHOOSE j \in js : TRUE

\* The pattern after its ssid group, matched against all of t:
\* r" \[(?P<channel>[^]]+)\] \((?P<strength>[-\d]+)dbm\)$"
TailGroups(t) ==
    LET j == ChannelEnd(t)
        strength == SubSeq(t, j + 3, Len(t) - 4)
    IN IF /\ Len(t) >= 2 /\ t[1] = 32 /\ t[2] = 91
          /\ j # 0
          /\ Len(t) >= j + 7
          /\ t[j + 1] = 32 /\ t[j + 2] = 40
          /\ \A i \in 1..Len(strength) : strength[i] = 45 \/ IsDigit(strength[i])
          /\ [i \in 1..4 |-> lower(t[Len(t) - 4 + i])] = <<100, 98, 109, 41>>
       THEN [ok |-> TRUE, channel |-> SubSeq(t, 3, j - 1), strength |-> strength]
       ELSE [ok |-> FALSE]

\* A match whose ssid group is lazy, r"^(?P<ssid>.+?)": the shortest prefix.
fullmatch_shortest(s) ==
    LET ks == {k \in 1..Len(s) :
                  /\ \A i \in 1..k : s[i] # 10
                  /\ TailGroups(SubSeq(s, k + 1, Len(s))).ok}
    IN IF ks = {} THEN [ok |-> FALSE]
       ELSE LET k == CHOOSE x \in ks : \A y \in ks : x <= y
                g == TailGroups(SubSeq(s, k + 1, Len(s)))
            IN [ok |-> TRUE, ssid |-> SubSeq(s, 1, k),
                channel |-> g.channel, strength |-> g.strength]

\* _WIFI_RE.fullmatch(s): the greedy ssid group r"^(?P<ssid>.+)" takes the
\* longest prefix without a line feed after which the rest matches.
fullmatch(s) ==
    LET ks == {k \in 1..Len(s) :
                  /\ \A i \in 1..k : s[i] # 10
                  /\ TailGroups(SubSeq(s, k + 1, Len(s))).ok}
    IN IF ks = {} THEN [ok |-> FALSE]
       ELSE LET k == CHOOSE x \in ks : \A y \in ks : y <= x
                g == TailGroups(SubSeq(s, k + 1, Len(s)))
            IN [ok |-> TRUE, ssid |-> SubSeq(s, 1, k),
                channel |-> g.channel, strength |-> g.strength]

WifiInfo(ssid, channel, strength) ==
    [ssid |-> ssid, channel |-> channel, strength |-> strength]

\* WifiInfo.parse: the WifiInfo, or the ValueError of a failed match, of
\* int() or of float().
parse(s) ==
    LET m == fullmatch(s) IN
    IF ~m.ok THEN [ok |-> FALSE, err |-> "ValueError"]
    ELSE LET channel == int_parse(m.channel)
             strength == float_parse(m.strength)
         IN IF channel.ok /\ strength.ok
            THEN [ok |-> TRUE, val |-> WifiInfo(m.ssid, channel.val, strength.val)]
            ELSE [ok |-> FALSE, err |-> "ValueError"]

\* The wifi field of FullState when the string cannot be parsed: None.
NoWifi == [none |-> TRUE]

----------------------------------------------------------------------------
(* api.Client, continued *)

\* api.FullState(switch=..., zones=..., wifi=...)
FullState(switch, zns, wifi) == [switch |-> switch, zones |-> zns, wifi |-> wifi]

\* What full_state does with the results of the gather: switch["wifi"] is
\* parsed, a ValueError of the parse makes the wifi field None, and a body
\* without the key ends full_state with the KeyError.
full_state(switch, zns) ==
    IF "wifi" \notin DOMAIN switch THEN [ok |-> FALSE, err |-> "KeyError"]
    ELSE LET w == parse(switch.wifi) IN
         [ok |-> TRUE,
          val |-> FullState(switch, zns, IF w.ok THEN w.val ELSE NoWifi)]

\* FullState.zone_by_id: the first zone with the id, or None.
NoZone == [none |-> TRUE]

zone_by_id(state, zone_id) ==
    LET hits == {i \in 1..Len(state.zones) : state.zones[i].id = zone_id}
    IN IF hits = {} THEN NoZone
       ELSE state.zones[CHOOSE i \in hits : \A j \in hits : i <= j]

Idle == [st |-> "none"]
InFlight == [st |-> "inflight"]
Ok(v) == [st |-> "ok", val |-> v]
Err(e) == [st |-> "err", err |-> e]

\* A gather that fills in a failed fetch with an empty value.
gather_partial(sw, zn) ==
    IF sw.st \in {"ok", "err"} /\ zn.st \in {"ok", "err"}
    THEN [st |-> "result",
          switch |-> IF sw.st = "ok" THEN sw.val ELSE SwitchBody,
          zones |-> IF zn.st = "ok" THEN zn.val ELSE <<>>]
    ELSE [st |-> "pending"]

\* A gather that looks at no outcome before both fetches have ended.
gather_wait_all(sw, zn) ==
    IF sw.st \in {"ok", "err"} /\ zn.st \in {"ok", "err"}
    THEN IF sw.st = "err" THEN [st |-> "exception", err |-> sw.err]
         ELSE IF zn.st = "err" THEN [st |-> "exception", err |-> zn.err]
         ELSE [st |-> "result", switch |-> sw.val, zones |-> zn.val]
    ELSE [st |-> "pending"]

\* asyncio.gather(self.switch(), self.zones()) seen from the task that just
\* finished: the first exception is set on the outer future at once, the
\* results only when both tasks are done.
gather(sw, zn) ==
    IF sw.st = "err" THEN [st |-> "exception", err |-> sw.err]
    ELSE IF zn.st = "err" THEN [st |-> "exception", err |-> zn.err]
    ELSE IF sw.st = "ok" /\ zn.st = "ok"
         THEN [st |-> "result", switch |-> sw.val, zones |-> zn.val]
         ELSE [st |-> "pending"]

\* The outer future is set once: later completions do not change it.
GatherAfter(sw, zn) == IF gatherOut.st = "pending" THEN gather(sw, zn) ELSE gatherOut

\* Somebody switches an output at the device itself.
DeviceToggle(i) ==
    /\ i \in 1..Len(devZones)
    /\ devZones' = [devZones EXCEPT ![i].state = IF @ = "on" THEN "off" ELSE "on"]
    /\ UNCHANGED <<reqSwitch, reqZones, gatherOut, fsLast,
                   coordPc, data, lastUpdateSuccess, lastException, lastGood>>
    /\ UNCHANGED <<entryVars, cmdVars, wifiVars>>
    /\ UNCHANGED <<discVars, flowVars>>

\* The address answers with one zone less: the last output is gone.
DeviceShrinks ==
    /\ devZones # <<>>
    /\ devZones' = SubSeq(devZones, 1, Len(devZones) - 1)
    /\ UNCHANGED <<reqSwitch, reqZones, gatherOut, fsLast,
                   coordPc, data, lastUpdateSuccess, lastException, lastGood>>
    /\ UNCHANGED <<entryVars, cmdVars, wifiVars>>
    /\ UNCHANGED <<discVars, flowVars>>

\* The name another client of the device gives to an output.
NewName == <<90>>

\* Somebody renames an output at the device (PUT /zonename/{id} of another
\* client).
DeviceRename(i) ==
    /\ i \in 1..Len(devZones)
    /\ devZones[i].name # NewName
    /\ devZones' = [devZones EXCEPT ![i].name = NewName]
    /\ UNCHANGED <<reqSwitch, reqZones, gatherOut, fsLast,
                   coordPc, data, lastUpdateSuccess, lastException, lastGood>>
    /\ UNCHANGED <<entryVars, cmdVars, wifiVars>>
    /\ UNCHANGED <<discVars, flowVars>>

\* _async_update_data awaits full_state, which starts both fetches and
\* awaits the gather.
StartFullState ==
    /\ coordPc' = "refreshing"
    /\ reqSwitch' = InFlight
    /\ reqZones' = InFlight
    /\ gatherOut' = [st |-> "pending"]

\* __init__.async_setup_entry up to its await: a new client and a new
\* coordinator are made and the first refresh begun.  Home Assistant calls it
\* when the entry is set up, and again after a setup that ended with
\* ConfigEntryNotReady.
SetupEntry ==
    /\ setupPc \in {"none", "not_ready"}
    /\ coordPc = "idle"
    /\ setupPc' = "first_refresh"
    /\ fsLast' = "none"
    /\ data' = NoData
    /\ lastUpdateSuccess' = TRUE
    /\ lastException' = "None"
    /\ lastGood' = NoData
    /\ StartFullState
    /\ UNCHANGED devZones
    /\ UNCHANGED <<registered, platformsForwarded, entities, refreshRequested>>
    /\ UNCHANGED <<cmdVars, wifiVars>>
    /\ UNCHANGED <<discVars, flowVars>>

\* The registered coordinator refreshes, on its interval or because a
\* refresh was requested.
RefreshStart ==
    /\ setupPc = "loaded"
    /\ coordPc = "idle"
    /\ StartFullState
    /\ refreshRequested' = FALSE
    /\ UNCHANGED <<devZones, fsLast, data, lastUpdateSuccess, lastException, lastGood>>
    /\ UNCHANGED <<setupPc, registered, platformsForwarded, entities>>
    /\ UNCHANGED <<cmdVars, wifiVars>>
    /\ UNCHANGED <<discVars, flowVars>>

\* Client.switch() ends: the body of GET /switch, or the error of _request.
SwitchDone(r) ==
    /\ reqSwitch.st = "inflight"
    /\ reqSwitch' = r
    /\ gatherOut' = GatherAfter(r, reqZones)
    /\ UNCHANGED <<devZones, reqZones, fsLast,
                   coordPc, data, lastUpdateSuccess, lastException, lastGood>>
    /\ UNCHANGED <<entryVars, cmdVars, wifiVars>>
    /\ UNCHANGED <<discVars, flowVars>>

SwitchResponse == SwitchDone(Ok(SwitchBody))

\* The device answers GET /switch with an object that lacks a key:
\* resp.json() decodes it and Client.switch returns it as it is.
SwitchResponseIncomplete == \E b \in SwitchBodiesIncomplete : SwitchDone(Ok(b))

SwitchFailure == \E e \in RequestErrors : SwitchDone(Err(e))

\* Client.zones() ends: the remapped zones of GET /zones, or the error.
ZonesDone(r) ==
    /\ reqZones.st = "inflight"
    /\ reqZones' = r
    /\ gatherOut' = GatherAfter(reqSwitch, r)
    /\ UNCHANGED <<devZones, reqSwitch, fsLast,
                   coordPc, data, lastUpdateSuccess, lastException, lastGood>>
    /\ UNCHANGED <<entryVars, cmdVars, wifiVars>>
    /\ UNCHANGED <<discVars, flowVars>>

ZonesResponse == ZonesDone([st |-> "ok", raw |-> devZones, val |-> zones(devZones)])

ZonesFailure == \E e \in RequestErrors : ZonesDone(Err(e))

\* What the failed refresh leaves in coordinator.data, were it cleared.
data_after_failure_cleared(d) == NoData

\* UpdateFailed leaves coordinator.data as it was.
data_after_failure(d) == d

\* A setup that goes on whatever the first refresh did.
setup_ignoring_failure(ok) == "loaded"

\* async_config_entry_first_refresh returns after a successful refresh and
\* raises ConfigEntryNotReady after a failed one, which ends async_setup_entry.
setup_after_first_refresh(ok) == IF ok THEN "loaded" ELSE "not_ready"

\* async_setup_entry after its await: the coordinator is stored under the
\* entry id and the platforms are forwarded.  A later refresh changes nothing.
EntryAfterRefresh(ok) ==
    IF setupPc = "first_refresh"
    THEN LET pc == setup_after_first_refresh(ok) IN
         /\ setupPc' = pc
         /\ registered' = (pc = "loaded")
         /\ platformsForwarded' = (pc = "loaded")
    ELSE UNCHANGED <<setupPc, registered, platformsForwarded>>

\* The outcome of full_state for the outer future of its gather.
FullStateOutcome ==
    IF gatherOut.st = "result"
    THEN full_state(gatherOut.switch, gatherOut.zones)
    ELSE [ok |-> FALSE, err |-> gatherOut.err]

\* full_state resumes with both results, returns the FullState, and the
\* coordinator stores it.
RefreshSuccess ==
    /\ coordPc = "refreshing"
    /\ gatherOut.st # "pending"
    /\ FullStateOutcome.ok
    /\ LET fs == FullStateOutcome.val IN
        /\ fsLast' = "returned"
        /\ data' = fs
        /\ lastGood' = fs
    /\ lastUpdateSuccess' = TRUE
    /\ lastException' = "None"
    /\ coordPc' = "idle"
    /\ reqSwitch' = Idle
    /\ reqZones' = Idle
    /\ gatherOut' = [st |-> "pending"]
    /\ EntryAfterRefresh(TRUE)
    /\ UNCHANGED <<devZones, entities, refreshRequested>>
    /\ UNCHANGED <<cmdVars, wifiVars>>
    /\ UNCHANGED <<discVars, flowVars>>

\* full_state resumes with the gather's exception (a fetch still running is
\* left to end unread) or raises on the results; _async_update_data logs it
\* and raises UpdateFailed, which the coordinator records.
RefreshFailure ==
    /\ coordPc = "refreshing"
    /\ gatherOut.st # "pending"
    /\ ~FullStateOutcome.ok
    /\ fsLast' = "raised"
    /\ data' = data_after_failure(data)
    /\ lastUpdateSuccess' = FALSE
    /\ lastException' = "UpdateFailed"
    /\ coordPc' = "idle"
    /\ reqSwitch' = Idle
    /\ reqZones' = Idle
    /\ gatherOut' = [st |-> "pending"]
    /\ EntryAfterRefresh(FALSE)
    /\ UNCHANGED <<devZones, lastGood, entities, refreshRequested>>
    /\ UNCHANGED <<cmdVars, wifiVars>>
    /\ UNCHANGED <<discVars, flowVars>>

\* No zone entity exists before the switch platform is set up.
NoEntities == [none |-> TRUE]

\* switch.async_setup_entry: a ZoneStateSwitch and a ZoneEnabledSwitch for
\* every zone of coordinator.data, each with the zone's id.
SwitchPlatformSetup ==
    /\ platformsForwarded
    /\ entities = NoEntities
    /\ data # NoData
    /\ entities' = [ids |-> {data.zones[i].id : i \in 1..Len(data.zones)}]
    /\ UNCHANGED <<devZones, reqSwitch, reqZones, gatherOut, fsLast,
                   coordPc, data, lastUpdateSuccess, lastException, lastGood>>
    /\ UNCHANGED <<setupPc, registered, platformsForwarded, refreshRequested>>
    /\ UNCHANGED <<cmdVars, wifiVars>>
    /\ UNCHANGED <<discVars, flowVars>>

----------------------------------------------------------------------------
(* The commands of the zone switches: Client.set_zone_state and             *)
(* Client.set_zone_config, and the device that answers their PUT            *)

MaxCommands == 2

NoCmd == [none |-> TRUE]

\* A body that is "1" whatever is asked for.
zone_state_body_on(is_on) == <<49>>

\* set_zone_state: "1" if is_on else "0"
zone_state_body(is_on) == IF is_on THEN <<49>> ELSE <<48>>

\* set_zone_config: ("1" if enabled else "0") + zone_name.strip()
zone_config_body(enabled, zone_name) ==
    (IF enabled THEN <<49>> ELSE <<48>>) \o strip(zone_name)

\* _send_command: the PUT of the body to the path, for the call that makes it.
PutRequest(call, endpoint, zone_id, body) ==
    [call |-> call, endpoint |-> endpoint, id |-> zone_id, body |-> body]

\* The calls of the client the switches make.
SetZoneState(zone_id, is_on) == [fn |-> "set_zone_state", id |-> zone_id, on |-> is_on]
SetZoneConfig(zone_id, enabled) == [fn |-> "set_zone_config", id |-> zone_id, on |-> enabled]

Ended(call, how) == [call |-> call, result |-> how]

\* The log with one more command, the oldest of three forgotten.
Logged(log, e) == IF Len(log) < 2 THEN Append(log, e) ELSE <<log[2], e>>

\* The device serves PUT /zones/{id} and PUT /zonename/{id}: the id counts
\* its outputs from 1; "1" and "0" set the output's state; the first
\* character of a zonename body sets the enabled flag and the rest the name.
device_put(dz, endpoint, zone_id, body) ==
    IF endpoint = "zones"
    THEN [dz EXCEPT ![zone_id].state =
              IF body = <<49>> THEN "on" ELSE IF body = <<48>> THEN "off" ELSE @]
    ELSE [dz EXCEPT ![zone_id].enabled = IF Head(body) = 49 THEN 1 ELSE 0,
                    ![zone_id].name = Tail(body)]

\* A command that asks for the re-poll in a finally clause.
after_put_finally(raised, requested) == TRUE

\* The statement after the awaited PUT, await
\* self.coordinator.async_request_refresh(), runs only if the PUT did not raise.
after_put(raised, requested) == IF raised THEN requested ELSE TRUE

\* ZoneStateSwitch.async_turn_on / async_turn_off, up to the await of the PUT.
TurnStateSwitch(zone_id, is_on) ==
    /\ entities # NoEntities
    /\ zone_id \in entities.ids
    /\ cmd = NoCmd
    /\ cmdCount < MaxCommands
    /\ cmdCount' = cmdCount + 1
    /\ cmd' = PutRequest(SetZoneState(zone_id, is_on),
                         "zones", zone_id, zone_state_body(is_on))
    /\ UNCHANGED cmdLog
    /\ UNCHANGED <<devZones, reqSwitch, reqZones, gatherOut, fsLast,
                   coordPc, data, lastUpdateSuccess, lastException, lastGood>>
    /\ UNCHANGED <<entryVars, wifiVars>>
    /\ UNCHANGED <<discVars, flowVars>>

\* ZoneEnabledSwitch.async_turn_on / async_turn_off, up to the await of the
\* PUT: the name is read from the entity's zone in the snapshot, whose
\* assertion ends the command when the zone is not there.
TurnEnabledSwitch(zone_id, enabled) ==
    /\ entities # NoEntities
    /\ zone_id \in entities.ids
    /\ cmd = NoCmd
    /\ cmdCount < MaxCommands
    /\ cmdCount' = cmdCount + 1
    /\ LET zone == zone_by_id(data, zone_id) IN
       IF zone = NoZone
       THEN /\ cmdLog' = Logged(cmdLog, Ended(SetZoneConfig(zone_id, enabled),
                                               "AssertionError"))
            /\ UNCHANGED cmd
       ELSE /\ cmd' = PutRequest(SetZoneConfig(zone_id, enabled),
                                 "zonename", zone_id, zone_config_body(enabled, zone.name))
            /\ UNCHANGED cmdLog
    /\ UNCHANGED <<devZones, reqSwitch, reqZones, gatherOut, fsLast,
                   coordPc, data, lastUpdateSuccess, lastException, lastGood>>
    /\ UNCHANGED <<entryVars, wifiVars>>
    /\ UNCHANGED <<discVars, flowVars>>

\* The device carries the PUT out and answers 2xx; the command goes on to
\* request the refresh and returns.
PutOk ==
    /\ cmd # NoCmd
    /\ cmd.id \in 1..Len(devZones)
    /\ devZones' = device_put(devZones, cmd.endpoint, cmd.id, cmd.body)
    /\ refreshRequested' = after_put(FALSE, refreshRequested)
    /\ cmdLog' = Logged(cmdLog, Ended(cmd.call, "ok"))
    /\ cmd' = NoCmd
    /\ UNCHANGED <<reqSwitch, reqZones, gatherOut, fsLast,
                   coordPc, data, lastUpdateSuccess, lastException, lastGood>>
    /\ UNCHANGED <<setupPc, registered, platformsForwarded, entities>>
    /\ UNCHANGED <<cmdCount, wifiVars>>
    /\ UNCHANGED <<discVars, flowVars>>

\* The PUT raises (a status that is not 2xx, a connection error, the
\* timeout), with the request carried out by the device or not; the
\* exception leaves the command.
PutFail(carried_out) ==
    /\ cmd # NoCmd
    /\ carried_out => cmd.id \in 1..Len(devZones)
    /\ devZones' = IF carried_out
                   THEN device_put(devZones, cmd.endpoint, cmd.id, cmd.body)
                   ELSE devZones
    /\ refreshRequested' = after_put(TRUE, refreshRequested)
    /\ cmdLog' = Logged(cmdLog, Ended(cmd.call, "raised"))
    /\ cmd' = NoCmd
    /\ UNCHANGED <<reqSwitch, reqZones, gatherOut, fsLast,
                   coordPc, data, lastUpdateSuccess, lastException, lastGood>>
    /\ UNCHANGED <<setupPc, registered, platformsForwarded, entities>>
    /\ UNCHANGED <<cmdCount, wifiVars>>
    /\ UNCHANGED <<discVars, flowVars>>

\* No entry is set up, no command was issued and no string was parsed.
IdleEntry ==
    /\ setupPc = "none"
    /\ registered = FALSE
    /\ platformsForwarded = FALSE
    /\ entities = NoEntities
    /\ refreshRequested = FALSE
    /\ cmd = NoCmd
    /\ cmdLog = <<>>
    /\ cmdCount = 0

NoResult == [pending |-> TRUE]

IdleWifi ==
    /\ wifiParts = [none |-> TRUE]
    /\ wifiParsed = NoResult
    /\ wifiField = NoResult

IdleCoordinator ==
    /\ reqSwitch = Idle
    /\ reqZones = Idle
    /\ gatherOut = [st |-> "pending"]
    /\ fsLast = "none"
    /\ coordPc = "idle"
    /\ data = NoData
    /\ lastUpdateSuccess = TRUE
    /\ lastException = "None"
    /\ lastGood = NoData

InitClient ==
    /\ devZones \in RawZoneLists
    /\ IdleCoordinator
    /\ IdleEntry
    /\ IdleWifi

----------------------------------------------------------------------------
(* UDP discovery: bytes are numbers 0..255, strings are their code points *)

\* _DISCOVERY_PING = b"afping", _DISCOVERY_PONG = b"afpong"
DISCOVERY_PING == <<97, 102, 112, 105, 110, 103>>
DISCOVERY_PONG == <<97, 102, 112, 111, 110, 103>>
DISCOVERY_MODEL_BYTES == 8

NUL == 0

\* bytes.startswith
startswith(b, prefix) ==
    /\ Len(b) >= Len(prefix)
    /\ SubSeq(b, 1, Len(prefix)) = prefix

\* b[lo:hi] and b[lo:] of Python: 0-based, clamped to the length, never raising.
Slice(b, lo, hi) == SubSeq(b, lo + 1, IF hi < Len(b) THEN hi ELSE Len(b))
SliceFrom(b, lo) == SubSeq(b, lo + 1, Len(b))

\* b.split(b"\x00", 1)[0]: the bytes before the first NUL, all of b without one.
RECURSIVE split0(_)
split0(b) ==
    IF b = <<>> \/ Head(b) = NUL THEN <<>> ELSE <<Head(b)>> \o split0(Tail(b))

\* bytes.decode("ascii"): the code points, or UnicodeDecodeError.
decode_ascii(b) ==
    IF \A i \in 1..Len(b) : b[i] < 128
    THEN [ok |-> TRUE, str |-> b]
    ELSE [ok |-> FALSE, err |-> "UnicodeDecodeError"]

\* A _cstr that decodes the whole field, NULs and what follows them included.
cstr_whole(b) == decode_ascii(b)

\* _cstr
cstr(b) == decode_ascii(split0(b))

DiscoveryInfo(host, model, serial) ==
    [host |-> host, model |-> model, serial_number |-> serial]

\* What connection_lost puts on the queue: None.
EOS == [eos |-> TRUE]

\* A handler that gives the session up at a datagram it cannot use.
datagram_received_strict(d, addr) ==
    IF startswith(d, DISCOVERY_PONG)
       /\ Len(d) >= Len(DISCOVERY_PONG) + DISCOVERY_MODEL_BYTES
       /\ cstr(Slice(d, Len(DISCOVERY_PONG), Len(DISCOVERY_PONG) + DISCOVERY_MODEL_BYTES)).ok
       /\ cstr(SliceFrom(d, Len(DISCOVERY_PONG) + DISCOVERY_MODEL_BYTES)).ok
    THEN <<DiscoveryInfo(addr,
                         cstr(Slice(d, Len(DISCOVERY_PONG),
                                    Len(DISCOVERY_PONG) + DISCOVERY_MODEL_BYTES)).str,
                         cstr(SliceFrom(d, Len(DISCOVERY_PONG) + DISCOVERY_MODEL_BYTES)).str)>>
    ELSE <<EOS>>

\* What datagram_received puts on the queue.  The slices never raise
\* IndexError, so the handler of that exception is never entered; the
\* UnicodeDecodeError of _cstr is not caught and leaves the callback before
\* put_nowait.
datagram_received(d, addr) ==
    IF ~startswith(d, DISCOVERY_PONG) THEN <<>>
    ELSE LET model_start == Len(DISCOVERY_PONG)
             serial_start == model_start + DISCOVERY_MODEL_BYTES
             model == cstr(Slice(d, model_start, serial_start))
             serial == cstr(SliceFrom(d, serial_start))
         IN IF model.ok /\ serial.ok
            THEN <<DiscoveryInfo(addr, model.str, serial.str)>>
            ELSE <<>>

\* The content of a NUL-terminated field: its longest prefix without a NUL.
UpToNul(f) ==
    LET k == CHOOSE n \in 0..Len(f) :
                /\ \A i \in 1..n : f[i] # NUL
                /\ n = Len(f) \/ f[n + 1] = NUL
    IN SubSeq(f, 1, k)

IsAscii(b) == \A i \in 1..Len(b) : b[i] < 128

PongLen == Len(DISCOVERY_PONG) + DISCOVERY_MODEL_BYTES

\* "afpong", the whole 8-byte model field, and a serial field after it.
HasPongFields(d) == startswith(d, DISCOVERY_PONG) /\ Len(d) >= PongLen

ModelField(d) == SubSeq(d, Len(DISCOVERY_PONG) + 1, PongLen)
SerialField(d) == SubSeq(d, PongLen + 1, Len(d))

\* A reply as the protocol describes it: "afpong", the model field and a
\* serial field, the contents of both in ASCII.
WellFormed(d) ==
    /\ HasPongFields(d)
    /\ IsAscii(UpToNul(ModelField(d)))
    /\ IsAscii(UpToNul(SerialField(d)))

\* What the queue holds besides the end marker.
IsInfo(x) == x # EOS

\* Datagrams a session may receive, with their source address.
ModelAF == <<65, 70, 0, 0, 0, 0, 0, 0>>
Serial12 == <<49, 50, 0>>

Packets == {
    [data |-> DISCOVERY_PONG \o ModelAF \o Serial12, addr |-> "1.2.3.4"],
    [data |-> DISCOVERY_PONG \o ModelAF \o Serial12, addr |-> "1.2.3.5"],
    [data |-> DISCOVERY_PONG \o <<65, 66, 67, 68, 69, 70, 71, 72>> \o <<49, 50>>,
     addr |-> "1.2.3.4"],
    [data |-> DISCOVERY_PONG \o <<65, 0, 200, 0, 0, 0, 0, 0>> \o <<49, 0, 50>>,
     addr |-> "1.2.3.5"],
    [data |-> DISCOVERY_PONG \o ModelAF, addr |-> "1.2.3.4"],
    [data |-> DISCOVERY_PONG \o <<200, 70, 0, 0, 0, 0, 0, 0>> \o Serial12,
     addr |-> "1.2.3.4"],
    [data |-> DISCOVERY_PONG \o ModelAF \o <<200, 0>>, addr |-> "1.2.3.5"],
    [data |-> DISCOVERY_PONG, addr |-> "1.2.3.4"],
    [data |-> DISCOVERY_PONG \o <<65, 70, 0>>, addr |-> "1.2.3.5"],
    [data |-> DISCOVERY_PING \o ModelAF \o Serial12, addr |-> "1.2.3.4"],
    [data |-> <<>>, addr |-> "1.2.3.5"],
    [data |-> SubSeq(DISCOVERY_PONG, 1, 5), addr |-> "1.2.3.4"]}

NoTimeout == -1
NoTimer == -1

Timeouts == {NoTimeout} \cup (0..MaxTimeout)

\* A truth test that takes only None for false.
is_not_none(t) == t # NoTimeout

\* `if self.timeout:` of __aenter__: None and 0.0 are both false.
truthy(t) == t # NoTimeout /\ t # 0

\* transport.close() and transport.abort(): the reader is removed and
\* connection_lost is scheduled, once; a transport already closing stays so.
close(t) == IF t = "open" THEN "closing" ELSE t

\* An abort that leaves the socket alone.
abort_nothing(t) == t

abort(t) == IF t = "open" THEN "closing" ELSE t

\* An __aenter__ that sends nothing.
sendto_nothing(sent) == sent

\* transport.sendto(_DISCOVERY_PING, (broadcast_addr, _DISCOVERY_PORT))
sendto(sent) == sent + 1

\* A loop of _make_iter that takes nothing for the end.
is_end_never(discovery) == FALSE

\* `if discovery is None: break` of _make_iter
is_end(discovery) == discovery = EOS

\* __aenter__: the endpoint is created, the probe sent and the timer armed.
Enter ==
    /\ sessPc = "idle"
    /\ sessPc' = "entered"
    /\ transport' = "open"
    /\ pingsSent' = sendto(pingsSent)
    /\ IF truthy(timeoutArg)
       THEN /\ timersArmed' = timersArmed + 1
            /\ timerDeadline' = elapsed + timeoutArg
       ELSE UNCHANGED <<timersArmed, timerDeadline>>
    /\ UNCHANGED <<timeoutArg, timerFired, elapsed, rxCount, queue, yielded, iterPc>>
    /\ UNCHANGED <<clientVars, flowVars>>
    /\ UNCHANGED <<accepted, malformedAt>>

\* __aenter__ when create_datagram_endpoint raises OSError.
EnterFails ==
    /\ sessPc = "idle"
    /\ sessPc' = "failed"
    /\ UNCHANGED <<timeoutArg, transport, timersArmed, timerDeadline, timerFired,
                   elapsed, pingsSent, rxCount, queue, yielded, iterPc>>
    /\ UNCHANGED <<clientVars, flowVars>>
    /\ UNCHANGED <<accepted, malformedAt>>

TimerDue == timerDeadline # NoTimer /\ ~timerFired /\ elapsed >= timerDeadline

\* A second passes; a timer that is due runs first.
Tick ==
    /\ sessPc \in {"entered", "exited", "exitedEarly"}
    /\ elapsed <= MaxTimeout
    /\ ~TimerDue
    /\ elapsed' = elapsed + 1
    /\ UNCHANGED <<timeoutArg, sessPc, transport, timersArmed, timerDeadline, timerFired,
                   pingsSent, rxCount, queue, yielded, iterPc>>
    /\ UNCHANGED <<clientVars, flowVars>>
    /\ UNCHANGED <<accepted, malformedAt>>

\* _on_timeout
OnTimeout ==
    /\ TimerDue
    /\ timerFired' = TRUE
    /\ transport' = IF transport # "none" THEN close(transport) ELSE transport
    /\ UNCHANGED <<timeoutArg, sessPc, timersArmed, timerDeadline,
                   elapsed, pingsSent, rxCount, queue, yielded, iterPc>>
    /\ UNCHANGED <<clientVars, flowVars>>
    /\ UNCHANGED <<accepted, malformedAt>>

\* _DiscoveryProtocol.datagram_received
DatagramReceived(d, addr) ==
    /\ transport = "open"
    /\ rxCount < MaxDatagrams
    /\ rxCount' = rxCount + 1
    /\ queue' = queue \o datagram_received(d, addr)
    /\ accepted' = accepted \o SelectSeq(datagram_received(d, addr), IsInfo)
    /\ malformedAt' = IF malformedAt = 0 /\ ~WellFormed(d) THEN rxCount + 1 ELSE malformedAt
    /\ UNCHANGED <<timeoutArg, sessPc, transport, timersArmed, timerDeadline, timerFired,
                   elapsed, pingsSent, yielded, iterPc>>
    /\ UNCHANGED <<clientVars, flowVars>>

\* _DiscoveryProtocol.connection_lost, called once by the closing transport.
ConnectionLost ==
    /\ transport = "closing"
    /\ transport' = "closed"
    /\ queue' = Append(queue, EOS)
    /\ UNCHANGED <<timeoutArg, sessPc, timersArmed, timerDeadline, timerFired,
                   elapsed, pingsSent, rxCount, yielded, iterPc>>
    /\ UNCHANGED <<clientVars, flowVars>>
    /\ UNCHANGED <<accepted, malformedAt>>

\* _make_iter: one turn of its loop, the consumer asking for the next reply.
IterNext ==
    /\ sessPc \in {"entered", "exited", "exitedEarly"}
    /\ iterPc = "running"
    /\ queue # <<>>
    /\ queue' = Tail(queue)
    /\ IF is_end(Head(queue))
       THEN iterPc' = "done" /\ UNCHANGED yielded
       ELSE yielded' = Append(yielded, Head(queue)) /\ UNCHANGED iterPc
    /\ UNCHANGED <<timeoutArg, sessPc, transport, timersArmed, timerDeadline, timerFired,
                   elapsed, pingsSent, rxCount>>
    /\ UNCHANGED <<clientVars, flowVars>>
    /\ UNCHANGED <<accepted, malformedAt>>

\* __aexit__: discover_list leaves the context when the sequence has ended,
\* another consumer of discover() whenever it stops consuming.
Exit ==
    /\ sessPc = "entered"
    /\ sessPc' = IF transport = "open" THEN "exitedEarly" ELSE "exited"
    /\ transport' = IF transport # "none" THEN abort(transport) ELSE transport
    /\ UNCHANGED <<timeoutArg, timersArmed, timerDeadline, timerFired,
                   elapsed, pingsSent, rxCount, queue, yielded, iterPc>>
    /\ UNCHANGED <<clientVars, flowVars>>
    /\ UNCHANGED <<accepted, malformedAt>>

IdleDiscovery ==
    /\ sessPc = "idle"
    /\ transport = "none"
    /\ timersArmed = 0
    /\ timerDeadline = NoTimer
    /\ timerFired = FALSE
    /\ elapsed = 0
    /\ pingsSent = 0
    /\ rxCount = 0
    /\ queue = <<>>
    /\ yielded = <<>>
    /\ iterPc = "running"
    /\ accepted = <<>>
    /\ malformedAt = 0

InitDiscovery ==
    /\ timeoutArg \in Timeouts
    /\ IdleDiscovery

NextDiscovery ==
    \/ Enter
    \/ EnterFails
    \/ Tick
    \/ OnTimeout
    \/ \E p \in Packets : DatagramReceived(p.data, p.addr)
    \/ ConnectionLost
    \/ IterNext
    \/ Exit

----------------------------------------------------------------------------
(* The config flow's discovery round over all interfaces *)

Interfaces == 1..MaxInterfaces

\* The inner() tasks one flow may create, in the order of their creation.
Rounds == 1..MaxRounds

HostA == "1.2.3.4"
HostB == "1.2.3.5"
SerialS1 == <<49>>
SerialS2 == <<50>>

\* What discover_list may return on one interface: nothing, one device, or
\* two; the same host may answer on several interfaces and under two serials.
DiscoverLists == {
    <<>>,
    <<DiscoveryInfo(HostA, <<65, 70>>, SerialS1)>>,
    <<DiscoveryInfo(HostA, <<65, 70>>, SerialS2)>>,
    <<DiscoveryInfo(HostB, <<65, 70>>, SerialS1), DiscoveryInfo(HostA, <<65, 70>>, SerialS1)>>,
    <<DiscoveryInfo(HostA, <<65, 70>>, SerialS2), DiscoveryInfo(HostB, <<65, 70>>, SerialS2)>>}

\* self._discoveries: None, or a list.
None == [none |-> TRUE]
List(l) == [list |-> l]

\* A wait that ends with one task still pending.
wait_predicate_one(p) == p <= 1

\* lambda: pending_tasks <= 0
wait_predicate(p) == p <= 0

\* A decrement outside the finally clause: skipped when discover_list raises.
decrement_on_success(p, raised) == IF raised THEN p ELSE p - 1

\* finally: pending_tasks -= 1
finally_decrement(p, raised) == p - 1

\* cond.notify_all(): the waiting future, if any, is resolved.
notify_all(w) == IF w = "pending" THEN "notified" ELSE w

\* cond.wait_for(predicate) of round r at a point where the lock is held:
\* return when the predicate holds, else release the lock and wait for a
\* notification.
WaitFor(r, pending) ==
    IF wait_predicate(pending)
    THEN /\ aggPc' = [aggPc EXCEPT ![r] = "returned"]
         /\ aggWaiter' = [aggWaiter EXCEPT ![r] = "none"]
    ELSE /\ aggPc' = [aggPc EXCEPT ![r] = "waiting"]
         /\ aggWaiter' = [aggWaiter EXCEPT ![r] = "pending"]

\* The filter loop with the host remembered before the serial is looked at.
RECURSIVE filter_host_first(_, _, _)
filter_host_first(all, hosts_seen, known) ==
    IF all = <<>> THEN <<>>
    ELSE LET d == Head(all) IN
         IF d.host \in hosts_seen THEN filter_host_first(Tail(all), hosts_seen, known)
         ELSE IF d.serial_number \in known
              THEN filter_host_first(Tail(all), hosts_seen \cup {d.host}, known)
              ELSE <<d>> \o filter_host_first(Tail(all), hosts_seen \cup {d.host}, known)

\* The loop of inner() in async_step_auto_discover over all_discoveries.
RECURSIVE filter_loop(_, _, _)
filter_loop(all, hosts_seen, known) ==
    IF all = <<>> THEN <<>>
    ELSE LET d == Head(all) IN
         IF d.serial_number \in known THEN filter_loop(Tail(all), hosts_seen, known)
         ELSE IF d.host \in hosts_seen THEN filter_loop(Tail(all), hosts_seen, known)
              ELSE <<d>> \o filter_loop(Tail(all), hosts_seen \cup {d.host}, known)

\* A test that takes every value of self._discoveries for a list.
never_unset(d) == FALSE

\* if self._discoveries is None
is_unset(d) == d = None

\* The body of async_step_auto_discover: while self._discoveries is None a
\* call creates one more inner() task and shows the progress; with a list
\* there it ends the progress and names discovery_select as the next step.
auto_discover ==
    IF is_unset(discoveries)
    THEN /\ rounds < MaxRounds
         /\ rounds' = rounds + 1
         /\ aggPc' = [aggPc EXCEPT ![rounds + 1] = "start"]
         /\ flowPc' = "progress"
    ELSE /\ flowPc' = "discovery_select"
         /\ UNCHANGED <<rounds, aggPc>>

\* async_step_auto_discover as the flow manager calls it by itself: once from
\* the menu, and once for each flow.async_configure task of self._tasks that
\* runs while the progress is shown.
StepAutoDiscover ==
    /\ \/ /\ flowPc = "user"
          /\ UNCHANGED configureTask
       \/ \E r \in Rounds :
             /\ flowPc = "progress"
             /\ configureTask[r] = "scheduled"
             /\ configureTask' = [configureTask EXCEPT ![r] = "done"]
    /\ auto_discover
    /\ UNCHANGED <<nIf, configured, discoveries, written, pending_tasks, aggWaiter,
                   taskPc, taskList, collected>>
    /\ UNCHANGED <<clientVars, discVars>>

\* flow.async_configure called from outside (the frontend or an API client
\* posting to the flow) while the progress is shown: the flow manager calls
\* the handler of the current step, async_step_auto_discover, once more.
ConfigureAgain ==
    /\ flowPc = "progress"
    /\ auto_discover
    /\ UNCHANGED <<nIf, configured, discoveries, written, configureTask, pending_tasks,
                   aggWaiter, taskPc, taskList, collected>>
    /\ UNCHANGED <<clientVars, discVars>>

\* if not self._discoveries: the manual form; else the selection form.
discovery_select ==
    IF discoveries = None \/ discoveries.list = <<>> THEN "manual" ELSE "select_form"

\* async_step_discovery_select without input, called for the frontend once
\* the progress has ended.
StepDiscoverySelect ==
    /\ flowPc = "discovery_select"
    /\ flowPc' = discovery_select
    /\ UNCHANGED <<nIf, configured, discoveries, written, rounds, configureTask, aggPc,
                   pending_tasks, aggWaiter, taskPc, taskList, collected>>
    /\ UNCHANGED <<clientVars, discVars>>

\* A flow.async_configure task of self._tasks that runs after the progress
\* has ended calls the handler of the current step without input: the manual
\* form is shown again, any other step is async_step_discovery_select.
ConfigureSelect(r) ==
    /\ flowPc \in {"discovery_select", "select_form", "manual"}
    /\ configureTask[r] = "scheduled"
    /\ configureTask' = [configureTask EXCEPT ![r] = "done"]
    /\ flowPc' = IF flowPc = "manual" THEN "manual" ELSE discovery_select
    /\ UNCHANGED <<nIf, configured, discoveries, written, rounds, aggPc, pending_tasks,
                   aggWaiter, taskPc, taskList, collected>>
    /\ UNCHANGED <<clientVars, discVars>>

\* inner() of round r runs and _collect_discoveries_all_interfaces awaits the
\* adapters.
AggBegin(r) ==
    /\ aggPc[r] = "start"
    /\ aggPc' = [aggPc EXCEPT ![r] = "adapters"]
    /\ UNCHANGED <<nIf, configured, flowPc, discoveries, written, rounds, configureTask,
                   pending_tasks, aggWaiter, taskPc, taskList, collected>>
    /\ UNCHANGED <<clientVars, discVars>>

\* The adapters are there: one task per interface is counted and created,
\* then the aggregator takes the lock of the Condition and waits.
AggSpawn(r) ==
    /\ aggPc[r] = "adapters"
    /\ pending_tasks' = [pending_tasks EXCEPT ![r] = @ + nIf]
    /\ taskPc' = [taskPc EXCEPT ![r] =
                     [i \in Interfaces |-> IF i <= nIf THEN "created" ELSE @[i]]]
    /\ WaitFor(r, pending_tasks[r] + nIf)
    /\ UNCHANGED <<nIf, configured, flowPc, discoveries, written, rounds, configureTask,
                   taskList, collected>>
    /\ UNCHANGED <<clientVars, discVars>>

\* A per-interface task of round r starts and awaits discover_list.
InnerStart(r, i) ==
    /\ taskPc[r][i] = "created"
    /\ taskPc' = [taskPc EXCEPT ![r][i] = "discovering"]
    /\ UNCHANGED <<nIf, configured, flowPc, discoveries, written, rounds, configureTask,
                   aggPc, pending_tasks, aggWaiter, taskList, collected>>
    /\ UNCHANGED <<clientVars, discVars>>

\* discover_list returns on interface i: the list is appended, the counter
\* decremented and, the lock being free, the waiters notified.
InnerDiscovered(r, i, found) ==
    /\ taskPc[r][i] = "discovering"
    /\ taskPc' = [taskPc EXCEPT ![r][i] = "done"]
    /\ taskList' = [taskList EXCEPT ![r][i] = found]
    /\ collected' = [collected EXCEPT ![r] = @ \o found]
    /\ pending_tasks' = [pending_tasks EXCEPT ![r] = finally_decrement(@, FALSE)]
    /\ aggWaiter' = [aggWaiter EXCEPT ![r] = notify_all(@)]
    /\ UNCHANGED <<nIf, configured, flowPc, discoveries, written, rounds, configureTask,
                   aggPc>>
    /\ UNCHANGED <<clientVars, discVars>>

\* discover_list raises on interface i (the socket cannot be opened): only
\* the finally clause runs, and the task ends with the exception.
InnerFailed(r, i) ==
    /\ taskPc[r][i] = "discovering"
    /\ taskPc' = [taskPc EXCEPT ![r][i] = "failed"]
    /\ pending_tasks' = [pending_tasks EXCEPT ![r] = finally_decrement(@, TRUE)]
    /\ aggWaiter' = [aggWaiter EXCEPT ![r] = notify_all(@)]
    /\ UNCHANGED <<nIf, configured, flowPc, discoveries, written, rounds, configureTask,
                   aggPc, taskList, collected>>
    /\ UNCHANGED <<clientVars, discVars>>

\* The notified aggregator takes the lock again and tests the predicate.
AggWake(r) ==
    /\ aggPc[r] = "waiting"
    /\ aggWaiter[r] = "notified"
    /\ WaitFor(r, pending_tasks[r])
    /\ UNCHANGED <<nIf, configured, flowPc, discoveries, written, rounds, configureTask,
                   pending_tasks, taskPc, taskList, collected>>
    /\ UNCHANGED <<clientVars, discVars>>

\* inner() of round r resumes with all_discoveries, filters them into
\* self._discoveries and creates the task that configures the flow again;
\* nothing is awaited in between.
FlowFilter(r) ==
    /\ aggPc[r] = "returned"
    /\ aggPc' = [aggPc EXCEPT ![r] = "finished"]
    /\ discoveries' = List(filter_loop(collected[r], {}, configured))
    /\ written' = Append(written, r)
    /\ configureTask' = [configureTask EXCEPT ![r] = "scheduled"]
    /\ UNCHANGED <<nIf, configured, flowPc, rounds, pending_tasks, aggWaiter,
                   taskPc, taskList, collected>>
    /\ UNCHANGED <<clientVars, discVars>>

IdleFlow ==
    /\ flowPc = "user"
    /\ discoveries = None
    /\ written = <<>>
    /\ rounds = 0
    /\ configureTask = [r \in Rounds |-> "none"]
    /\ aggPc = [r \in Rounds |-> "none"]
    /\ pending_tasks = [r \in Rounds |-> 0]
    /\ aggWaiter = [r \in Rounds |-> "none"]
    /\ taskPc = [r \in Rounds |-> [i \in Interfaces |-> "none"]]
    /\ taskList = [r \in Rounds |-> [i \in Interfaces |-> <<>>]]
    /\ collected = [r \in Rounds |-> <<>>]

InitFlow ==
    /\ nIf \in 0..MaxInterfaces
    /\ configured \in SUBSET {SerialS1, SerialS2}
    /\ IdleFlow

NextFlow ==
    \/ StepAutoDiscover
    \/ StepDiscoverySelect
    \/ \E r \in Rounds : AggBegin(r)
    \/ \E r \in Rounds : AggSpawn(r)
    \/ \E r \in Rounds, i \in Interfaces : InnerStart(r, i)
    \/ \E r \in Rounds, i \in Interfaces, found \in DiscoverLists : InnerDiscovered(r, i, found)
    \/ \E r \in Rounds, i \in Interfaces : InnerFailed(r, i)
    \/ \E r \in Rounds : AggWake(r)
    \/ \E r \in Rounds : FlowFilter(r)

\* The flow with calls of flow.async_configure from outside as well.
NextRounds ==
    \/ StepAutoDiscover
    \/ StepDiscoverySelect
    \/ \E r \in Rounds : AggBegin(r)
    \/ \E r \in Rounds : AggSpawn(r)
    \/ \E r \in Rounds, i \in Interfaces : InnerStart(r, i)
    \/ \E r \in Rounds, i \in Interfaces, found \in DiscoverLists : InnerDiscovered(r, i, found)
    \/ \E r \in Rounds, i \in Interfaces : InnerFailed(r, i)
    \/ \E r \in Rounds : AggWake(r)
    \/ \E r \in Rounds : FlowFilter(r)
    \/ ConfigureAgain
    \/ \E r \in Rounds : ConfigureSelect(r)

NextClient ==
    \/ \E i \in 1..MaxZones : DeviceToggle(i)
    \/ SetupEntry
    \/ SwitchPlatformSetup
    \/ RefreshStart
    \/ SwitchResponse
    \/ SwitchFailure
    \/ ZonesResponse
    \/ ZonesFailure
    \/ RefreshSuccess
    \/ RefreshFailure

IdleClient ==
    /\ devZones = <<>>
    /\ IdleCoordinator
    /\ IdleEntry
    /\ IdleWifi

NoFlow ==
    /\ nIf = 0
    /\ configured = {}
    /\ IdleFlow

\* The client and its coordinator alone.
InitSpecClient ==
    /\ InitClient
    /\ timeoutArg = NoTimeout
    /\ IdleDiscovery
    /\ NoFlow

SpecClient == InitSpecClient /\ [][NextClient]_vars

\* The bodies of GET /zones of a device that numbers its outputs from 0.
ZoneListsInOrder ==
    {[i \in 1..n |-> RawZone(i - 1, i, "off")] : n \in 0..MaxZones}

\* The entry is set up and its zone switches are used.
InitSpecCommands ==
    /\ devZones \in ZoneListsInOrder
    /\ IdleCoordinator
    /\ IdleEntry
    /\ IdleWifi
    /\ timeoutArg = NoTimeout
    /\ IdleDiscovery
    /\ NoFlow

NextCommands ==
    \/ SetupEntry
    \/ SwitchPlatformSetup
    \/ RefreshStart
    \/ SwitchResponse
    \/ ZonesResponse
    \/ RefreshSuccess
    \/ \E id \in 1..MaxZones, on \in BOOLEAN : TurnStateSwitch(id, on)
    \/ \E id \in 1..MaxZones, on \in BOOLEAN : TurnEnabledSwitch(id, on)
    \/ PutOk
    \/ \E carried_out \in BOOLEAN : PutFail(carried_out)

SpecCommands == InitSpecCommands /\ [][NextCommands]_vars

\* The 'Zone Enabled' switches are used on a device that is also operated by
\* others: at any time an output may be renamed at the device.
InitSpecStale ==
    /\ devZones \in ZoneListsInOrder
    /\ IdleCoordinator
    /\ IdleEntry
    /\ IdleWifi
    /\ timeoutArg = NoTimeout
    /\ IdleDiscovery
    /\ NoFlow

NextStale ==
    \/ \E i \in 1..MaxZones : DeviceRename(i)
    \/ SetupEntry
    \/ SwitchPlatformSetup
    \/ RefreshStart
    \/ SwitchResponse
    \/ ZonesResponse
    \/ RefreshSuccess
    \/ \E id \in 1..MaxZones, on \in BOOLEAN : TurnEnabledSwitch(id, on)
    \/ PutOk

SpecStale == InitSpecStale /\ [][NextStale]_vars

\* The entry is set up on a device whose answers change shape: it may lose
\* outputs, and its GET /switch may lack a key.
InitSpecDevice ==
    /\ devZones \in ZoneListsInOrder
    /\ IdleCoordinator
    /\ IdleEntry
    /\ IdleWifi
    /\ timeoutArg = NoTimeout
    /\ IdleDiscovery
    /\ NoFlow

NextDevice ==
    \/ DeviceShrinks
    \/ SetupEntry
    \/ SwitchPlatformSetup
    \/ RefreshStart
    \/ SwitchResponse
    \/ SwitchResponseIncomplete
    \/ SwitchFailure
    \/ ZonesResponse
    \/ ZonesFailure
    \/ RefreshSuccess
    \/ RefreshFailure

SpecDevice == InitSpecDevice /\ [][NextDevice]_vars

\* The strings WifiInfo.parse is tried on, by their parts.  An ssid: "home",
\* "my net", "a [1", the empty string, and "a" LF "b".
WifiSsids == {<<104, 111, 109, 101>>, <<109, 121, 32, 110, 101, 116>>,
              <<97, 32, 91, 49>>, <<>>, <<97, 10, 98>>}

\* A channel: "6", "11", "-1", " 6", "x" and the empty string, with the
\* integer the first four stand for.
WifiChannels == {
    [text |-> <<54>>, isInt |-> TRUE, int |-> 6],
    [text |-> <<49, 49>>, isInt |-> TRUE, int |-> 11],
    [text |-> <<45, 49>>, isInt |-> TRUE, int |-> 0 - 1],
    [text |-> <<32, 54>>, isInt |-> TRUE, int |-> 6],
    [text |-> <<120>>, isInt |-> FALSE, int |-> 0],
    [text |-> <<>>, isInt |-> FALSE, int |-> 0]}

\* A strength: "-40", "7", "-40.5", "+40", "-", "4-0" and the empty string;
\* whether it is a signed decimal number, whether it is digits after at most
\* a minus sign, and its value in tenths.
WifiStrengths == {
    [text |-> <<45, 52, 48>>, decimal |-> TRUE, plain |-> TRUE, tenths |-> 0 - 400],
    [text |-> <<55>>, decimal |-> TRUE, plain |-> TRUE, tenths |-> 70],
    [text |-> <<45, 52, 48, 46, 53>>, decimal |-> TRUE, plain |-> FALSE, tenths |-> 0 - 405],
    [text |-> <<43, 52, 48>>, decimal |-> TRUE, plain |-> FALSE, tenths |-> 400],
    [text |-> <<45>>, decimal |-> FALSE, plain |-> FALSE, tenths |-> 0],
    [text |-> <<52, 45, 48>>, decimal |-> FALSE, plain |-> FALSE, tenths |-> 0],
    [text |-> <<>>, decimal |-> FALSE, plain |-> FALSE, tenths |-> 0]}

\* A unit: "dbm", "dBm", "db".
WifiUnits == {<<100, 98, 109>>, <<100, 66, 109>>, <<100, 98>>}

\* How the parts are joined: as "X [Y] (Zdbm)", without the space before
\* the "[", or with a space after the ")".
WifiShapes == {"plain", "nospace", "trailing"}

WifiInputs ==
    [ssid : WifiSsids, channel : WifiChannels, strength : WifiStrengths,
     unit : WifiUnits, shape : WifiShapes]

WifiString(p) ==
    p.ssid \o (IF p.shape = "nospace" THEN <<91>> ELSE <<32, 91>>) \o p.channel.text
           \o <<93, 32, 40>> \o p.strength.text \o p.unit \o <<41>>
           \o (IF p.shape = "trailing" THEN <<32>> ELSE <<>>)

\* WifiInfo.parse of the string, and full_state with both fetches answered,
\* GET /switch carrying the string as its "wifi".
WifiFullState ==
    /\ wifiParts \in WifiInputs
    /\ wifiParsed = NoResult
    /\ wifiParsed' = parse(WifiString(wifiParts))
    /\ wifiField' =
          LET r == full_state([SwitchBody EXCEPT !.wifi = WifiString(wifiParts)], <<>>)
          IN IF r.ok THEN [returned |-> TRUE, wifi |-> r.val.wifi]
             ELSE [returned |-> FALSE, err |-> r.err]
    /\ UNCHANGED wifiParts
    /\ UNCHANGED <<devZones, reqSwitch, reqZones, gatherOut, fsLast,
                   coordPc, data, lastUpdateSuccess, lastException, lastGood>>
    /\ UNCHANGED <<entryVars, cmdVars>>
    /\ UNCHANGED <<discVars, flowVars>>

\* WifiInfo.parse and the wifi field of full_state alone.
InitSpecWifi ==
    /\ devZones = <<>>
    /\ IdleCoordinator
    /\ IdleEntry
    /\ wifiParts \in WifiInputs
    /\ wifiParsed = NoResult
    /\ wifiField = NoResult
    /\ timeoutArg = NoTimeout
    /\ IdleDiscovery
    /\ NoFlow

NextWifi == WifiFullState

SpecWifi == InitSpecWifi /\ [][NextWifi]_vars

\* One discovery session alone.
InitSpecDiscovery ==
    /\ IdleClient
    /\ InitDiscovery
    /\ NoFlow

SpecDiscovery == InitSpecDiscovery /\ [][NextDiscovery]_vars

\* The event loop runs every scheduled callback, and the consumer keeps asking.
FairDiscovery ==
    SpecDiscovery /\ WF_vars(ConnectionLost) /\ WF_vars(IterNext)

\* One discovery round of a config flow alone.
InitSpecFlow ==
    /\ IdleClient
    /\ timeoutArg = NoTimeout
    /\ IdleDiscovery
    /\ InitFlow

SpecFlow == InitSpecFlow /\ [][NextFlow]_vars

\* The event loop runs every task that is ready, and every discover_list ends.
FairFlow == SpecFlow /\ WF_vars(NextFlow)

\* A config flow whose step is also called from outside while it collects.
InitSpecRounds ==
    /\ IdleClient
    /\ timeoutArg = NoTimeout
    /\ IdleDiscovery
    /\ InitFlow

SpecRounds == InitSpecRounds /\ [][NextRounds]_vars

----------------------------------------------------------------------------
(* Properties of the client and the coordinator (SpecClient) *)

\* C1: whatever ids the device gives its n zones, Client.zones returns the same
\* zones in the same order with the ids 1..n by position, so the zone ids of
\* every snapshot are unique, 1-based and dense.
C1_ZoneIdsByPosition ==
    /\ reqZones.st = "ok" =>
          /\ Len(reqZones.val) = Len(reqZones.raw)
          /\ \A i \in 1..Len(reqZones.raw) :
                /\ reqZones.val[i].id = i
                /\ reqZones.val[i].name = reqZones.raw[i].name
                /\ reqZones.val[i].enabled = reqZones.raw[i].enabled
                /\ reqZones.val[i].state = reqZones.raw[i].state
    /\ data # NoData =>
          /\ {data.zones[i].id : i \in 1..Len(data.zones)} = 1..Len(data.zones)
          /\ \A i, j \in 1..Len(data.zones) :
                data.zones[i].id = data.zones[j].id => i = j

\* A response whose raw ids are not ascending, remapped and stored.
C1_Witness ==
    /\ reqZones.st = "ok"
    /\ Len(reqZones.raw) = 2
    /\ reqZones.raw[1].id >= reqZones.raw[2].id
    /\ data # NoData
    /\ Len(data.zones) = 2

\* C2: full_state returns a FullState only when both fetches succeeded; when
\* either failed it raises, and its caller gets no FullState.
C2_FullStateAllOrNothing ==
    [][(coordPc = "refreshing" /\ coordPc' = "idle") =>
          /\ fsLast' = "returned" => (reqSwitch.st = "ok" /\ reqZones.st = "ok")
          /\ (reqSwitch.st = "err" \/ reqZones.st = "err") =>
                (fsLast' = "raised" /\ data' = data)]_vars

\* full_state has raised, and its caller holds no FullState.
C2_Witness ==
    /\ fsLast = "raised"
    /\ coordPc = "idle"
    /\ data = NoData

\* C3: once a refresh has succeeded, coordinator.data is the FullState of the
\* most recent successful refresh; a failed refresh is reported as UpdateFailed
\* and leaves it as it was, never empty.
C3_SnapshotIsLastGood ==
    /\ lastGood # NoData => data = lastGood
    /\ fsLast = "raised" => (~lastUpdateSuccess /\ lastException = "UpdateFailed")
    /\ fsLast = "returned" => (lastUpdateSuccess /\ data # NoData)

\* A refresh failed after a successful one, and the device has changed since.
C3_Witness ==
    /\ fsLast = "raised"
    /\ coordPc = "idle"
    /\ lastGood # NoData
    /\ data.zones # zones(devZones)

\* C11: the coordinator is stored under the entry id, and the platforms are
\* forwarded, only once its first refresh has succeeded; a first refresh that
\* fails leaves the entry without coordinator, platforms and entities.
C11_ReadyOnlyAfterFirstRefresh ==
    /\ [](/\ registered => (setupPc = "loaded" /\ lastGood # NoData /\ data = lastGood)
          /\ platformsForwarded => registered
          /\ entities # NoEntities => platformsForwarded)
    /\ [][/\ (~registered /\ registered') =>
                (setupPc = "first_refresh" /\ fsLast' = "returned")
          /\ (setupPc = "first_refresh" /\ fsLast' = "raised") =>
                (~registered' /\ ~platformsForwarded' /\ entities' = NoEntities)]_vars

\* The entry is set up on a device with two zones, and the switch platform
\* has made its entities from the first snapshot.
C11_Witness ==
    /\ setupPc = "loaded"
    /\ registered
    /\ platformsForwarded
    /\ entities # NoEntities
    /\ entities.ids = {1, 2}

\* C15: full_state starts both fetches together, so that either may be
\* answered while the other is in flight; it returns only when both have
\* succeeded, and its gather fails with the first failure, the other fetch
\* still running or not.
C15_ConcurrentFetches ==
    /\ [][/\ (reqZones.st # "inflight" /\ reqZones'.st = "inflight") =>
                (reqSwitch.st # "inflight" /\ reqSwitch'.st = "inflight")
          /\ (reqSwitch.st # "inflight" /\ reqSwitch'.st = "inflight") =>
                reqZones'.st = "inflight"
          /\ (coordPc = "refreshing" /\ fsLast' = "returned" /\ coordPc' = "idle") =>
                (reqSwitch.st = "ok" /\ reqZones.st = "ok")]_vars
    /\ [](coordPc = "refreshing" =>
            /\ gatherOut.st = "result" <=> (reqSwitch.st = "ok" /\ reqZones.st = "ok")
            /\ gatherOut.st = "exception" <=> (reqSwitch.st = "err" \/ reqZones.st = "err")
            /\ (reqSwitch.st = "err" /\ reqZones.st = "inflight") =>
                  gatherOut = [st |-> "exception", err |-> reqSwitch.err]
            /\ (reqZones.st = "err" /\ reqSwitch.st = "inflight") =>
                  gatherOut = [st |-> "exception", err |-> reqZones.err])

\* The zones fetch has failed while the switch fetch is still in flight, and
\* the gather has failed already.
C15_Witness ==
    /\ coordPc = "refreshing"
    /\ reqSwitch.st = "inflight"
    /\ reqZones.st = "err"
    /\ gatherOut.st = "exception"

----------------------------------------------------------------------------
(* Properties of the client on a device whose answers change (SpecDevice) *)

\* The keys of api.Switch.
SwitchKeys == {"name", "model", "serial", "version", "wifi", "alexa"}

\* C16: Client.switch ends with an error, and returns nothing, when the
\* request fails, the body is no JSON, or the decoded body lacks a key of
\* Switch: what it returns has every key.
C16_SwitchFailsOnBadBody ==
    /\ reqSwitch.st = "ok" => SwitchKeys \subseteq DOMAIN reqSwitch.val
    /\ data # NoData => SwitchKeys \subseteq DOMAIN data.switch

\* C20: every zone entity made at the platform setup finds its zone in the
\* coordinator's snapshot, whatever polls have succeeded since.
C20_ZoneEntitiesFindZone ==
    (entities # NoEntities /\ data # NoData) =>
        \A id \in entities.ids : zone_by_id(data, id) # NoZone

----------------------------------------------------------------------------
(* Properties of WifiInfo.parse (SpecWifi) *)

\* The string reads "X [Y] (Zdbm)", the unit in either case, X not empty.
HasWifiForm(p) ==
    /\ p.shape = "plain"
    /\ p.ssid # <<>>
    /\ [i \in 1..Len(p.unit) |-> lower(p.unit[i])] = <<100, 98, 109>>

ExpectedWifi(p) == WifiInfo(p.ssid, p.channel.int, [tenths |-> p.strength.tenths])

\* The outcome for a string of the grammar, and the outcome for any other.
ParsedAsExpected(p) ==
    /\ wifiParsed = [ok |-> TRUE, val |-> ExpectedWifi(p)]
    /\ wifiField = [returned |-> TRUE, wifi |-> ExpectedWifi(p)]

ParseFailsWifiAbsent ==
    /\ ~wifiParsed.ok
    /\ wifiField = [returned |-> TRUE, wifi |-> NoWifi]

----------------------------------------------------------------------------
(* Properties of the zone switches' commands (SpecCommands) *)

\* A command ends in this step: its PUT was in flight and is no more.
CommandEnds == cmd # NoCmd /\ cmd' = NoCmd

LastEnded == cmdLog[Len(cmdLog)]

\* C12: a switch command requests the re-poll only when its PUT has ended
\* without error; a PUT that fails ends the command with the error, without a
\* request for a re-poll and with the snapshot as it was.
C12_RepollOnlyAfterPut ==
    [][/\ (refreshRequested' /\ ~refreshRequested) =>
             (CommandEnds /\ LastEnded' = Ended(cmd.call, "ok"))
       /\ (CommandEnds /\ LastEnded'.result = "ok") => refreshRequested'
       /\ (CommandEnds /\ LastEnded'.result # "ok") =>
             /\ LastEnded' = Ended(cmd.call, "raised")
             /\ refreshRequested' = refreshRequested
             /\ data' = data]_vars

\* A ZoneEnabledSwitch was turned off and its PUT failed: no re-poll is asked
\* for, and the snapshot is the one of the setup.
C12_Witness ==
    /\ cmdCount = 1
    /\ Len(cmdLog) = 1
    /\ cmdLog[1] = Ended(SetZoneConfig(2, FALSE), "raised")
    /\ ~refreshRequested
    /\ coordPc = "idle"
    /\ data = lastGood
    /\ data # NoData

StateOf(v) == IF v THEN "on" ELSE "off"

\* C18: a set_zone_state(id, v) that succeeds leaves zone id in the state v
\* whatever its state was, and changes nothing else at the device; issued
\* again it changes nothing at all.
C18_SetZoneStateIsStateSet ==
    [][\A id \in 1..MaxZones, v \in BOOLEAN :
          (CommandEnds /\ LastEnded' = Ended(SetZoneState(id, v), "ok")) =>
             /\ devZones' = [devZones EXCEPT ![id].state = StateOf(v)]
             /\ (cmdLog # <<>> /\ LastEnded = LastEnded') => devZones' = devZones]_vars

\* set_zone_state(1, True) has succeeded twice in a row, and zone 1 is on.
C18_Witness ==
    /\ cmdCount = 2
    /\ Len(cmdLog) = 2
    /\ cmdLog[1] = Ended(SetZoneState(1, TRUE), "ok")
    /\ cmdLog[2] = cmdLog[1]
    /\ cmd = NoCmd
    /\ devZones[1].state = "on"

----------------------------------------------------------------------------
(* Properties of the zone switches on a device operated by others (SpecStale) *)

FlagOf(v) == IF v THEN 1 ELSE 0

\* C23: the 'Zone Enabled' switch of zone id sends PUT /zonename/{id} with "1"
\* or "0" and then the trimmed name of the zone in the snapshot, and a command
\* that succeeds changes nothing at the device but the enabled flag of that
\* zone: the zone's name is afterwards what it was before, up to blanks at its
\* ends, also when the device has changed since the last poll.
C23_EnabledSwitchKeepsName ==
    [][/\ (cmd = NoCmd /\ cmd' # NoCmd /\ cmd'.call.fn = "set_zone_config") =>
             /\ cmd'.endpoint = "zonename"
             /\ cmd'.id = cmd'.call.id
             /\ Head(cmd'.body) = 48 + FlagOf(cmd'.call.on)
             /\ Tail(cmd'.body) = strip(zone_by_id(data, cmd'.call.id).name)
       /\ \A id \in 1..MaxZones, v \in BOOLEAN :
             (CommandEnds /\ LastEnded' = Ended(SetZoneConfig(id, v), "ok")) =>
                /\ Len(devZones') = Len(devZones)
                /\ \A k \in 1..Len(devZones) : k # id => devZones'[k] = devZones[k]
                /\ devZones'[id].enabled = FlagOf(v)
                /\ devZones'[id].id = devZones[id].id
                /\ devZones'[id].state = devZones[id].state
                /\ strip(devZones'[id].name) = strip(devZones[id].name)]_vars

----------------------------------------------------------------------------
(* Properties of one discovery session (SpecDiscovery, FairDiscovery) *)

ExpectedInfo(p) ==
    DiscoveryInfo(p.addr, UpToNul(ModelField(p.data)), UpToNul(SerialField(p.data)))

\* C4 as stated: every datagram with "afpong", an 8-byte model field and a
\* serial field enqueues exactly the DiscoveryInfo of its fields and source
\* address; a datagram that does not begin with "afpong" enqueues nothing.
C4_Original ==
    [][\A p \in Packets : DatagramReceived(p.data, p.addr) =>
          /\ HasPongFields(p.data) => queue' = Append(queue, ExpectedInfo(p))
          /\ ~startswith(p.data, DISCOVERY_PONG) => queue' = queue]_vars

\* C4, amended: the same for the datagrams whose model and serial contents
\* (the bytes before the first NUL of each field) are ASCII.
C4_AsciiPongEnqueuesOne ==
    [][\A p \in Packets : DatagramReceived(p.data, p.addr) =>
          /\ (/\ HasPongFields(p.data)
              /\ IsAscii(UpToNul(ModelField(p.data)))
              /\ IsAscii(UpToNul(SerialField(p.data))))
                => queue' = Append(queue, ExpectedInfo(p))
          /\ ~startswith(p.data, DISCOVERY_PONG) => queue' = queue]_vars

\* A reply from 1.2.3.5 with bytes after the NULs of its fields was enqueued
\* as model "A", serial "1", and a second datagram was ignored.
C4_Witness ==
    /\ rxCount = 2
    /\ queue = <<DiscoveryInfo("1.2.3.5", <<65>>, <<49>>)>>
    /\ yielded = <<>>

\* C5: a datagram that begins with "afpong" and is too short to hold the
\* 8-byte model field and a serial field enqueues nothing.
C5_ShortPongIgnored ==
    [][\A p \in Packets : DatagramReceived(p.data, p.addr) =>
          ((startswith(p.data, DISCOVERY_PONG) /\ Len(p.data) < PongLen)
              => queue' = queue)]_vars

\* C6: a session entered with a timeout t >= 0 has armed exactly one timer, due
\* t after the start whatever has arrived since, and once t has elapsed the
\* socket is no longer open.
C6_OneShotTimeout ==
    (sessPc \in {"entered", "exited", "exitedEarly"} /\ timeoutArg >= 0) =>
        /\ timersArmed = 1
        /\ timerDeadline = timeoutArg
        /\ elapsed > timeoutArg => transport # "open"

\* C7: leaving the context before the timeout aborts the socket, and the
\* end-of-sequence marker that follows ends the reply sequence.
C7_EarlyExitEndsSequence ==
    /\ [](sessPc = "exitedEarly" =>
            /\ transport \in {"closing", "closed"}
            /\ transport = "closed" => (iterPc = "done" \/ EOS \in Range(queue)))
    /\ (sessPc = "exitedEarly") ~> (iterPc = "done")

\* The context was left with the timer still pending, and the sequence ended
\* after yielding the reply received before.
C7_Witness ==
    /\ sessPc = "exitedEarly"
    /\ timersArmed = 1
    /\ ~timerFired
    /\ iterPc = "done"
    /\ Len(yielded) = 1

\* Where a session is: 0 before __aenter__, 1 while its replies are
\* collected, 2 when the reply sequence has ended or the socket never opened.
Phase ==
    IF sessPc = "idle" THEN 0
    ELSE IF sessPc = "failed" \/ iterPc = "done" THEN 2
    ELSE 1

\* C13: a session never goes back to an earlier state; it sends one probe,
\* when its socket is opened and before any reply is yielded; and once the
\* reply sequence has ended nothing more is yielded.
C13_SessionOrder ==
    /\ [](/\ pingsSent = (IF sessPc \in {"entered", "exited", "exitedEarly"} THEN 1 ELSE 0)
          /\ transport = "none" => pingsSent = 0
          /\ (yielded # <<>> \/ iterPc = "done") => pingsSent = 1)
    /\ [][/\ Phase' >= Phase
          /\ pingsSent' # pingsSent =>
                (transport = "none" /\ transport' = "open" /\ yielded' = <<>>)
          /\ iterPc = "done" => (iterPc' = "done" /\ yielded' = yielded)]_vars

\* The timer closed the socket of a session that had yielded a reply, and the
\* sequence ended after the context was left.
C13_Witness ==
    /\ pingsSent = 1
    /\ timerFired
    /\ sessPc = "exited"
    /\ iterPc = "done"
    /\ yielded # <<>>

EndMarkers(q) == SelectSeq(q, LAMBDA x : x = EOS)

\* C14: a datagram that is no well-formed reply leaves the session open and
\* puts no end marker on the queue, and a well-formed reply that comes after it
\* is enqueued like any other; what was enqueued is yielded or still queued.
C14_MalformedDoesNotEnd ==
    /\ [][\A p \in Packets : DatagramReceived(p.data, p.addr) =>
             /\ transport' = "open"
             /\ iterPc' = iterPc
             /\ EndMarkers(queue') = EndMarkers(queue)
             /\ (malformedAt > 0 /\ WellFormed(p.data)) =>
                    queue' = Append(queue, ExpectedInfo(p))]_vars
    /\ [](/\ EOS \in Range(queue) => transport = "closed"
          /\ Range(accepted) \subseteq Range(yielded) \cup Range(queue))

\* The first datagram was not ASCII and enqueued nothing; the reply that came
\* second was enqueued and yielded, the socket still open.
C14_Witness ==
    /\ malformedAt = 1
    /\ rxCount = 2
    /\ accepted = <<DiscoveryInfo("1.2.3.4", <<65, 70>>, <<49, 50>>)>>
    /\ yielded = accepted
    /\ transport = "open"

\* C19: the consumer is yielded the enqueued replies in the order of their
\* arrival, each once; all of them have been yielded when the sequence ends,
\* and the end marker is not among them.
C19_YieldedInArrivalOrder ==
    /\ [](/\ accepted = yielded \o SelectSeq(queue, IsInfo)
          /\ EOS \notin Range(yielded)
          /\ iterPc = "done" => yielded = accepted)
    /\ []<>(yielded = accepted)

\* Two replies from two hosts were yielded in their order of arrival, and the
\* sequence has ended.
C19_Witness ==
    /\ iterPc = "done"
    /\ Len(accepted) = 2
    /\ accepted[1].host # accepted[2].host
    /\ yielded = accepted

----------------------------------------------------------------------------
(* Properties of the flow's discovery round (SpecFlow, FairFlow) *)

AllInfos == UNION {Range(l) : l \in DiscoverLists}

\* How often x occurs in the list s.
Count(s, x) == Cardinality({k \in 1..Len(s) : s[k] = x})

RECURSIVE CountOnInterfaces(_, _, _)
CountOnInterfaces(r, n, x) ==
    IF n = 0 THEN 0 ELSE Count(taskList[r][n], x) + CountOnInterfaces(r, n - 1, x)

Returned(r) == aggPc[r] \in {"returned", "finished"}

\* C8: the aggregator returns only when every per-interface task has ended, and
\* what it returns holds every discovery of every interface, as often as found.
C8_ReturnsUnionAfterAll ==
    \A r \in Rounds :
        Returned(r) =>
            /\ \A i \in 1..nIf : taskPc[r][i] \in {"done", "failed"}
            /\ \A x \in AllInfos : Count(collected[r], x) = CountOnInterfaces(r, nIf, x)

\* Two interfaces: nothing replied on the first, which ended first; the two
\* replies of the second are returned.
C8_Witness ==
    /\ aggPc[1] = "returned"
    /\ nIf = 2
    /\ taskPc[1][1] = "done"
    /\ taskList[1][1] = <<>>
    /\ Len(taskList[1][2]) = 2
    /\ collected[1] = taskList[1][2]

\* C9: once started the aggregator returns, also when per-interface tasks fail:
\* a failed task is counted down and notifies like any other, and the
\* discoveries of the interfaces that did not fail are returned.
C9_ReturnsDespiteFailures ==
    \A r \in Rounds :
        /\ (aggPc[r] = "start") ~> Returned(r)
        /\ [](Returned(r) =>
                /\ pending_tasks[r] = 0
                /\ \A i \in 1..nIf :
                      taskPc[r][i] = "done"
                          => Range(taskList[r][i]) \subseteq Range(collected[r]))

\* The aggregator has returned the discoveries of one interface although the
\* task of another failed.
C9_Witness ==
    /\ aggPc[1] = "returned"
    /\ \E i, j \in 1..nIf :
          /\ taskPc[1][i] = "failed"
          /\ taskPc[1][j] = "done"
          /\ taskList[1][j] # <<>>
          /\ collected[1] = taskList[1][j]

\* Positions of the aggregated list whose discovery is not configured and
\* whose host has no earlier discovery that is not configured.
KeptAt(all, known) ==
    {k \in 1..Len(all) :
        /\ all[k].serial_number \notin known
        /\ \A j \in 1..(k - 1) :
              all[j].host = all[k].host => all[j].serial_number \in known}

\* The elements of s at the positions idx, in the order of s.
RECURSIVE SelectAt(_, _, _)
SelectAt(s, idx, k) ==
    IF k > Len(s) THEN <<>>
    ELSE (IF k \in idx THEN <<s[k]>> ELSE <<>>) \o SelectAt(s, idx, k + 1)

\* The aggregated list of the round that wrote self._discoveries last.
Aggregated == collected[written[Len(written)]]

\* C10: the list the flow offers has no host twice and no configured serial;
\* of the aggregated discoveries of one host it keeps the first that is not
\* configured, and it keeps every discovery that is neither configured nor a
\* repeated host.
C10_DiscoveriesDeduplicated ==
    discoveries # None =>
        LET d == discoveries.list IN
        /\ \A i, j \in 1..Len(d) : d[i].host = d[j].host => i = j
        /\ \A i \in 1..Len(d) : d[i].serial_number \notin configured
        /\ written # <<>>
        /\ d = SelectAt(Aggregated, KeptAt(Aggregated, configured), 1)

\* A host answered first under a configured serial and then under another
\* one: the second answer is offered.
C10_Witness ==
    /\ discoveries # None
    /\ written # <<>>
    /\ \E j, k \in 1..Len(Aggregated) :
          /\ j < k
          /\ Aggregated[j].host = Aggregated[k].host
          /\ Aggregated[j].serial_number \in configured
          /\ Aggregated[k] \in Range(discoveries.list)
    /\ Len(discoveries.list) < Cardinality(KeptAt(Aggregated, {}))

\* The list d is what the filter leaves of the aggregated list all when it has
\* run to its end: no configured serial, no host twice, nothing that was not
\* found, and every host found under a serial that is not configured.
FullyFiltered(d, all, known) ==
    /\ \A i \in 1..Len(d) : d[i] \in Range(all) /\ d[i].serial_number \notin known
    /\ \A i, j \in 1..Len(d) : d[i].host = d[j].host => i = j
    /\ \A k \in 1..Len(all) :
          all[k].serial_number \notin known
              => \E i \in 1..Len(d) : d[i].host = all[k].host

\* C22: the step ends the progress, and discovery_select runs, only with a
\* list in self._discoveries; whenever the list is there, the round that wrote
\* it has returned from the aggregation with every per-interface task ended
\* and the list is the completely filtered aggregate, never an empty or half
\* filtered one; and a flow.async_configure task exists only for a round that
\* has written its list.
C22_ProgressDoneAfterFilter ==
    /\ flowPc \in {"discovery_select", "select_form", "manual"} => discoveries # None
    /\ discoveries # None =>
          /\ written # <<>>
          /\ aggPc[written[Len(written)]] = "finished"
          /\ \A i \in 1..nIf : taskPc[written[Len(written)]][i] \in {"done", "failed"}
          /\ FullyFiltered(discoveries.list, Aggregated, configured)
    /\ \A r \in Rounds :
          configureTask[r] # "none" => aggPc[r] = "finished" /\ discoveries # None

\* The progress has ended on the list of two interfaces, from which the
\* filter has taken something out and in which it has left something.
C22_Witness ==
    /\ flowPc = "select_form"
    /\ configureTask[1] = "done"
    /\ nIf = 2
    /\ taskPc[1][1] = "done"
    /\ taskPc[1][2] = "done"
    /\ discoveries # None
    /\ discoveries.list # <<>>
    /\ Len(discoveries.list) < Len(collected[1])

----------------------------------------------------------------------------
(* Properties of a flow whose step is called again (SpecRounds) *)

\* C21: however often the auto_discover step of one flow is called, also
\* while the first round still collects, the discovery over all interfaces is
\* started once and self._discoveries is written by that one round only.
C21_OneDiscoveryRound ==
    /\ rounds <= 1
    /\ Len(written) <= 1

====
